---- MODULE Spec2Model ----
(***************************************************************************)
(* zk-graph: the browser-side graph builder, the hover, drag and click     *)
(* handlers of GraphVisualizer, the sliders and the Reset button of        *)
(* InteractiveGraph (src/public/graph.js), the d3 step they act on and the *)
(* server that exports the graph document and notifies its subscriber      *)
(* (src/server.js).                                                        *)
(*                                                                         *)
(* Opacities are kept in tenths (0.2 -> 2, 1 -> 10); the simulation's      *)
(* energy (alpha) and its target in thousandths (0.5 -> 500), rounded down *)
(* after every step; radii in tenths, centerForce and linkForce in         *)
(* hundredths; colours are the strings of defaultConfig.  A JavaScript     *)
(* value that may be null or unset is a sequence of length at most one:    *)
(* <<>> is null/unset, <<v>> is v.                                         *)
(***************************************************************************)
EXTENDS Integers, Sequences, FiniteSets, TLC

VARIABLES
    rawData,      \* the graph document served as graph.json: [notes, links]
    tags,         \* the tag document served as tags.json: sequence of [name]
    phase,        \* "start" | "ready" (initialize completed) | "failed" (caught)
    nodes,        \* data.nodes: the simulation's nodes = the data of ".nodes g"
    links,        \* data.links: the link force's links = the data of ".links line"
    pos,          \* per node index: [x, y], owned by the simulation
    fix,          \* per node index: [fx, fy], each <<>> (null) or <<coordinate>>
    alphaTarget,  \* simulation.alphaTarget(), in thousandths
    alpha,        \* simulation.alpha(), in thousandths
    running,      \* whether the simulation's timer is running
    ticks,        \* history: the number of steps taken, counted up to MaxTicks
    forces,       \* the strengths given to the simulation's forces x, y, charge, link
    config,       \* InteractiveGraph: the config state the sliders show
    storage,      \* localStorage "graphConfig": <<>> or <<the saved config>>
    woken,        \* history: whether the last updateConfig found the timer stopped
    gestures,     \* d3-drag: per gesture identifier <<>> or <<subject node index>>
    still,        \* d3-drag: per gesture <<p>> while the pointer has not left the
                  \* place p where it went down, else <<>>
    request,      \* <<>>, or <<r>>: the open request r the last handler sent
    svg,          \* whether createSvgContainer has appended the svg
    nodeView,     \* per node index: the attributes and styles of its g, circle and text
    linkView,     \* per link index: the styles of its line
    over,         \* <<>> or <<i>>: the node whose circle the pointer is over
    preHover,     \* history: the effective view when the last mouseover arrived
    lastPtr,      \* history: per node, the coordinate of the last drag event on it
    lastEvent,    \* history: the name of the last handler that ran
    client,       \* server: <<>> (null) or <<c>>, the response of subscriber c
    subscribers,  \* server: the subscriber connections that are open
    generation,   \* server: the number of calls of generate_graph so far
    exports,      \* server: the calls whose export command is still running
    refresh,      \* server: <<>>, or <<[generation, to]>>: the refresh the last
                  \* handler wrote, the call that wrote it and the subscriber
    runs          \* history: per call of processGraphData, the arguments as they
                  \* were when it was called and the value it returned

vars == <<rawData, tags, phase, nodes, links, pos, fix, alphaTarget, alpha,
          running, ticks, forces, config, storage, woken, gestures, still,
          request, svg, nodeView, linkView, over, preHover, lastPtr, lastEvent,
          client, subscribers, generation, exports, refresh, runs>>

browserVars ==
    <<rawData, tags, phase, nodes, links, pos, fix, alphaTarget, alpha, running,
      ticks, forces, config, storage, woken, gestures, still, request, svg,
      nodeView, linkView, over, preHover, lastPtr, lastEvent, runs>>

serverVars == <<client, subscribers, generation, exports, refresh>>

(***************************************************************************)
(* Bounds of the model.                                                    *)
(***************************************************************************)
MaxNotes == 3
MaxLinks == 2
MaxTags == 2
MaxGestures == 2
MaxCoord == 1
MaxTicks == 2
MaxClients == 2
MaxGenerations == 3
MaxRuns == 2

(***************************************************************************)
(* defaultConfig                                                           *)
(***************************************************************************)
NodeFill == "#1f77b4"
TagFill == "#cc77cc"
HighlightFill == "#ff6b6b"
NodeFontSize == 0
HoverFontSize == 25
NodeDimOpacity == 2
NodeHighlightOpacity == 10
LinkStroke == "#999"
LinkHighlightStroke == "#ff6b6b"
LinkOpacity == 10
LinkDimOpacity == 2
LinkHighlightOpacity == 10

(***************************************************************************)
(* Helpers for JavaScript arrays.                                          *)
(***************************************************************************)
includes(seq, v) == \E i \in DOMAIN seq : seq[i] = v

SeqsUpTo(S, n) == UNION {[1..k -> S] : k \in 0..n}

RECURSIVE Flatten(_)
Flatten(ss) == IF ss = <<>> THEN <<>> ELSE Head(ss) \o Flatten(Tail(ss))

(***************************************************************************)
(* calculateConnectionCounts(nodes, links): a count of 0 for every node    *)
(* path, then one increment per endpoint of every link.                    *)
(***************************************************************************)
Increment(counts, p) ==
    IF p \in DOMAIN counts THEN [counts EXCEPT ![p] = @ + 1] ELSE counts

RECURSIVE CountLinks(_, _)
CountLinks(counts, ls) ==
    IF ls = <<>> THEN counts
    ELSE CountLinks(Increment(Increment(counts, Head(ls).source), Head(ls).target),
                    Tail(ls))

calculateConnectionCounts(ns, ls) ==
    CountLinks([p \in {ns[i].path : i \in DOMAIN ns} |-> 0], ls)

(***************************************************************************)
(* processGraphData(rawData, tags)                                         *)
(***************************************************************************)
validPaths(rd) == [i \in DOMAIN rd.notes |-> rd.notes[i].path]

keepEdge_targetOnly(rd, edge) == includes(validPaths(rd), edge.targetPath)

keepEdge(rd, edge) ==
    /\ includes(validPaths(rd), edge.targetPath)
    /\ includes(validPaths(rd), edge.sourcePath)

filteredLinks(rd) ==
    LET keep(edge) == keepEdge(rd, edge)
        kept == SelectSeq(rd.links, keep)
    IN  [i \in DOMAIN kept |-> [source |-> kept[i].sourcePath,
                                target |-> kept[i].targetPath]]

noteNodes(rd, connectionCounts) ==
    [i \in DOMAIN rd.notes |->
        [path        |-> rd.notes[i].path,
         absPath     |-> IF "absPath" \in DOMAIN rd.notes[i]
                         THEN <<rd.notes[i].absPath>>
                         ELSE <<>>,
         type        |-> "note",
         connections |-> connectionCounts[rd.notes[i].path],
         active      |-> HighlightFill,
         inactive    |-> NodeFill]]

tagLinks_allNotes(rd, tag) == rd.notes

tagLinks(rd, tag) ==
    LET carries(note) == includes(note.tags, tag.name)
    IN  SelectSeq(rd.notes, carries)

tagNode(rd, tag) ==
    [path        |-> tag.name,
     absPath     |-> <<>>,
     type        |-> "tag",
     connections |-> Len(tagLinks(rd, tag)),
     active      |-> HighlightFill,
     inactive    |-> TagFill]

tagNodes_none(rd, tgs) == <<>>

tagNodes(rd, tgs) == [k \in DOMAIN tgs |-> tagNode(rd, tgs[k])]

syntheticLinks(rd, tgs) ==
    Flatten([k \in DOMAIN tgs |->
        LET tl == tagLinks(rd, tgs[k])
        IN  [j \in DOMAIN tl |-> [source |-> tgs[k].name, target |-> tl[j].path]]])

\* What processGraphData leaves in the objects it was passed: it reads them
\* with map, filter, includes and spread, which build new arrays and objects,
\* and pushes only to the arrays it built itself.
argumentsAfter_linksPushed(rd, tgs) ==
    [rawData |-> [rd EXCEPT !.links = rd.links \o
                     [k \in DOMAIN syntheticLinks(rd, tgs) |->
                         [sourcePath |-> syntheticLinks(rd, tgs)[k].source,
                          targetPath |-> syntheticLinks(rd, tgs)[k].target]]],
     tags    |-> tgs]

argumentsAfter(rd, tgs) == [rawData |-> rd, tags |-> tgs]

processGraphData(rd, tgs) ==
    LET ls == filteredLinks(rd)
        connectionCounts == calculateConnectionCounts(rd.notes, ls)
    IN  [nodes |-> noteNodes(rd, connectionCounts) \o tagNodes(rd, tgs),
         links |-> ls \o syntheticLinks(rd, tgs)]


(***************************************************************************)
(* The documents the page can be served.  Note paths are unique (the       *)
(* exporter names each note by its path); a link may name the path "x" of  *)
(* a note outside the loaded set; the tag "a" has the name of a note path. *)
(***************************************************************************)
NotePaths == <<"a", "b", "c", "d">>
TagNames == {"proj", "a"}
NoteTagChoices == {<<>>, <<"proj">>, <<"a", "proj", "proj">>}
RawLinkChoices ==
    {[sourcePath |-> "a", targetPath |-> "b"],
     [sourcePath |-> "b", targetPath |-> "x"],
     [sourcePath |-> "x", targetPath |-> "a"],
     [sourcePath |-> "a", targetPath |-> "a"]}

\* A note as zk exports it: absPath is the notebook's directory and the path.
Note(path, noteTags) ==
    [path |-> path, absPath |-> <<"/notebook", path>>, tags |-> noteTags]

NoteLists ==
    UNION {{[i \in 1..n |-> Note(NotePaths[i], ts[i])] :
                ts \in [1..n -> NoteTagChoices]} : n \in 0..MaxNotes}

RawDatas ==
    {[notes |-> ns, links |-> ls] :
        ns \in NoteLists, ls \in SeqsUpTo(RawLinkChoices, MaxLinks)}

TagLists ==
    {[k \in DOMAIN names |-> [name |-> names[k]]] :
        names \in SeqsUpTo(TagNames, MaxTags)}

(***************************************************************************)
(* Coordinates: the points a force, the seeding or a pointer can supply.   *)
(***************************************************************************)
Points == {[x |-> c, y |-> MaxCoord - c] : c \in 0..MaxCoord}

SeedPoint(i) ==
    [x |-> (i - 1) % (MaxCoord + 1), y |-> MaxCoord - ((i - 1) % (MaxCoord + 1))]

GestureIds == 1..MaxGestures

(***************************************************************************)
(* The options of defaultConfig that the sliders change, and the values    *)
(* the sliders are moved to: the default and one step of the slider above. *)
(***************************************************************************)
defaultConfig ==
    [node   |-> [baseRadius |-> 70, radiusMultiplier |-> 5],
     forces |-> [centerForce |-> 20, repelForce |-> -500, linkForce |-> 30,
                 linkDistance |-> 50]]

ForceOptions == {"centerForce", "repelForce", "linkForce", "linkDistance"}
RadiusOptions == {"baseRadius", "radiusMultiplier"}

Sliders ==
    {[category |-> "node", param |-> q] : q \in RadiusOptions}
    \cup {[category |-> "forces", param |-> q] : q \in ForceOptions}

SliderValues(param) ==
    CASE param = "baseRadius"       -> {70, 75}
      [] param = "radiusMultiplier" -> {5, 6}
      [] param = "centerForce"      -> {20, 25}
      [] param = "repelForce"       -> {-500, -490}
      [] param = "linkForce"        -> {30, 35}
      [] param = "linkDistance"     -> {50, 55}

(***************************************************************************)
(* The strength accessor of forceX and forceY.  A strength is a fraction   *)
(* num / den, or NaN: JavaScript's 0 / 0.  Math.max of no argument is      *)
(* -Infinity; the accessor is then called for no node.                     *)
(***************************************************************************)
NaN == [nan |-> TRUE, num |-> 0, den |-> 0]

maxConnections(ns) ==
    IF ns = <<>> THEN 0
    ELSE CHOOSE m \in {ns[i].connections : i \in DOMAIN ns} :
            \A i \in DOMAIN ns : ns[i].connections <= m

centerStrength(centerForce, connections, maxC) ==
    IF maxC = 0
    THEN NaN
    ELSE [nan |-> FALSE, num |-> centerForce * (maxC + connections), den |-> maxC]

applyForces(cfg, ns) ==
    [x      |-> [i \in DOMAIN ns |->
                    centerStrength(cfg.forces.centerForce, ns[i].connections,
                                   maxConnections(ns))],
     y      |-> [i \in DOMAIN ns |->
                    centerStrength(cfg.forces.centerForce, ns[i].connections,
                                   maxConnections(ns))],
     charge |-> cfg.forces.repelForce,
     link   |-> [strength |-> cfg.forces.linkForce,
                 distance |-> cfg.forces.linkDistance]]

radius(cfg, node) == cfg.node.baseRadius + node.connections * cfg.node.radiusMultiplier

(***************************************************************************)
(* setupSimulation(data): d3.forceSimulation seeds every node's position,  *)
(* leaves fx/fy unset and alphaTarget at 0; alphaDecay(0.02), alpha(0.5),  *)
(* and restart() runs the timer.  AlphaMin is d3's default of 0.001.       *)
(***************************************************************************)
RestAlphaTarget == 0
DragAlphaTarget == 300
InitialAlpha == 500
AlphaDecayPercent == 2
AlphaMin == 1

setupSimulation(data) ==
    /\ pos' = [i \in DOMAIN data.nodes |-> SeedPoint(i)]
    /\ fix' = [i \in DOMAIN data.nodes |-> [fx |-> <<>>, fy |-> <<>>]]
    /\ alphaTarget' = RestAlphaTarget
    /\ alpha' = InitialAlpha
    /\ running' = TRUE
    /\ forces' = applyForces(defaultConfig, data.nodes)

(***************************************************************************)
(* createVisualization(data): createLinks and createNodeGroups.            *)
(***************************************************************************)
InitialStrokeWidth == 2
DimStrokeWidth == 1
HighlightStrokeWidth == 2
ResetStrokeWidth == 1
LabelHidden == 0
LabelShown == 1

createLinks(ls) ==
    [j \in DOMAIN ls |->
        [strokeAttr      |-> LinkStroke,
         strokeWidthAttr |-> InitialStrokeWidth,
         opacity         |-> <<>>,
         stroke          |-> <<>>,
         strokeWidth     |-> <<>>]]

createNodeGroups(ns) ==
    [i \in DOMAIN ns |->
        [r           |-> radius(defaultConfig, ns[i]),
         opacity     |-> <<>>,
         fillAttr    |-> IF ns[i].type = "note" THEN NodeFill ELSE TagFill,
         fill        |-> <<>>,
         textOpacity |-> LabelHidden,
         fontSize    |-> NodeFontSize]]

createVisualization(data) ==
    /\ svg' = TRUE
    /\ linkView' = createLinks(data.links)
    /\ nodeView' = createNodeGroups(data.nodes)

(***************************************************************************)
(* What is drawn: a style, once set, overrides the attribute; an element   *)
(* with no opacity style is drawn at the CSS initial opacity 1.            *)
(***************************************************************************)
CssInitialOpacity == 10

Effective(style, default) == IF style = <<>> THEN default ELSE style[1]

NodeOpacity(i) == Effective(nodeView[i].opacity, CssInitialOpacity)
NodeFillColour(i) == Effective(nodeView[i].fill, nodeView[i].fillAttr)
LinkOpacityOf(j) == Effective(linkView[j].opacity, CssInitialOpacity)
LinkStrokeOf(j) == Effective(linkView[j].stroke, linkView[j].strokeAttr)
LinkWidthOf(j) == Effective(linkView[j].strokeWidth, linkView[j].strokeWidthAttr)

EffectiveView ==
    [nodeOpacity |-> [i \in DOMAIN nodeView |-> NodeOpacity(i)],
     nodeFill    |-> [i \in DOMAIN nodeView |-> NodeFillColour(i)],
     linkOpacity |-> [j \in DOMAIN linkView |-> LinkOpacityOf(j)],
     linkStroke  |-> [j \in DOMAIN linkView |-> LinkStrokeOf(j)],
     linkWidth   |-> [j \in DOMAIN linkView |-> LinkWidthOf(j)]]

(***************************************************************************)
(* Init: the page is loaded, initialize has not run.  The documents served *)
(* may be of the wrong shape (<<>> in a tag list is a JSON null), and      *)
(* localStorage may hold a config saved by an earlier visit.               *)
(***************************************************************************)
MalformedRawDatas ==
    {[links |-> <<>>],
     [notes |-> <<Note("a", <<>>)>>],
     [notes |-> <<[path |-> "a"], Note("b", <<"proj">>)>>,
      links |-> <<[sourcePath |-> "a", targetPath |-> "b"]>>]}

MalformedTagLists == {<< <<>> >>, <<[name |-> "proj"], <<>> >>}

SavedConfigs ==
    {<<>>, <<[defaultConfig EXCEPT !.forces.repelForce = -490, !.node.baseRadius = 75]>>}

loadConfig(savedConfig) == IF savedConfig # <<>> THEN savedConfig[1] ELSE defaultConfig

Init ==
    /\ rawData \in RawDatas \cup MalformedRawDatas
    /\ tags \in TagLists \cup MalformedTagLists
    /\ phase = "start"
    /\ nodes = <<>>
    /\ links = <<>>
    /\ pos = <<>>
    /\ fix = <<>>
    /\ alphaTarget = RestAlphaTarget
    /\ alpha = 0
    /\ running = FALSE
    /\ ticks = 0
    /\ forces = <<>>
    /\ storage \in SavedConfigs
    /\ config = loadConfig(storage)
    /\ woken = FALSE
    /\ gestures = [g \in GestureIds |-> <<>>]
    /\ still = [g \in GestureIds |-> <<>>]
    /\ request = <<>>
    /\ svg = FALSE
    /\ nodeView = <<>>
    /\ linkView = <<>>
    /\ over = <<>>
    /\ preHover = <<>>
    /\ lastPtr = <<>>
    /\ lastEvent = "none"
    /\ client = <<>>
    /\ subscribers = {}
    /\ generation = 1
    /\ exports = {1}
    /\ refresh = <<>>
    /\ runs = <<>>

(***************************************************************************)
(* initialize(dataUrl, tagsUrl): both documents load, the graph is built,  *)
(* the simulation set up and the view created ...                          *)
(***************************************************************************)
processThrows(rd, tgs) ==
    \/ "notes" \notin DOMAIN rd
    \/ "links" \notin DOMAIN rd
    \/ \E k \in DOMAIN tgs : tgs[k] = <<>>
    \/ tgs # <<>> /\ \E i \in DOMAIN rd.notes : "tags" \notin DOMAIN rd.notes[i]

InitializeOk ==
    /\ phase = "start"
    /\ ~processThrows(rawData, tags)
    /\ LET processedData == processGraphData(rawData, tags)
       IN  /\ runs' = Append(runs, [rawData |-> rawData, tags |-> tags,
                                    returned |-> processedData])
           /\ nodes' = processedData.nodes
           /\ links' = processedData.links
           /\ setupSimulation(processedData)
           /\ createVisualization(processedData)
           /\ lastPtr' = [i \in DOMAIN processedData.nodes |-> <<>>]
    /\ phase' = "ready"
    /\ lastEvent' = "initialize"
    /\ request' = <<>>
    /\ rawData' = argumentsAfter(rawData, tags).rawData
    /\ tags' = argumentsAfter(rawData, tags).tags
    /\ UNCHANGED serverVars
    /\ UNCHANGED <<ticks, config, storage, woken, gestures, still, over, preHover>>

(***************************************************************************)
(* ... or d3.json rejects for one of the documents (it is missing, or not  *)
(* JSON), or processGraphData throws on a document of the wrong shape, and *)
(* the catch clause logs the error.  Whichever call fails, it comes before *)
(* setupSimulation and createVisualization.                                *)
(***************************************************************************)
InitializeFail_svgFirst ==
    /\ phase = "start"
    /\ phase' = "failed"
    /\ svg' = TRUE
    /\ lastEvent' = "fail"
    /\ request' = <<>>
    /\ UNCHANGED <<runs, serverVars>>
    /\ UNCHANGED <<rawData, tags, nodes, links, pos, fix, alphaTarget, alpha,
                   running, ticks, forces, config, storage, woken, gestures, still,
                   nodeView, linkView, over, preHover, lastPtr>>

InitializeFail ==
    /\ phase = "start"
    /\ phase' = "failed"
    /\ lastEvent' = "fail"
    /\ request' = <<>>
    /\ UNCHANGED <<runs, serverVars>>
    /\ UNCHANGED <<rawData, tags, svg, still, nodes, links, pos, fix, alphaTarget, alpha,
                   running, ticks, forces, config, storage, woken, gestures,
                   nodeView, linkView, over, preHover, lastPtr>>

NextBuild == InitializeOk \/ InitializeFail

WellFormedInit == Init /\ rawData \in RawDatas /\ tags \in TagLists

InitBuild == WellFormedInit /\ storage = <<>>

SpecBuild == InitBuild /\ [][NextBuild]_vars

(***************************************************************************)
(* The builder applied again to the documents the page holds, as a caller  *)
(* of processGraphData may do; what it returns is recorded in runs.        *)
(* SpecRuns takes the documents with at most one tag.                      *)
(***************************************************************************)
ProcessGraphData ==
    /\ phase = "ready"
    /\ Len(runs) < MaxRuns
    /\ runs' = Append(runs, [rawData |-> rawData, tags |-> tags,
                             returned |-> processGraphData(rawData, tags)])
    /\ rawData' = argumentsAfter(rawData, tags).rawData
    /\ tags' = argumentsAfter(rawData, tags).tags
    /\ lastEvent' = "processGraphData"
    /\ request' = <<>>
    /\ UNCHANGED serverVars
    /\ UNCHANGED <<phase, nodes, links, pos, fix, alphaTarget, alpha, running,
                   ticks, forces, config, storage, woken, gestures, still, svg,
                   nodeView, linkView, over, preHover, lastPtr>>

NextRuns == InitializeOk \/ InitializeFail \/ ProcessGraphData

InitRuns == WellFormedInit /\ storage = <<>> /\ Len(tags) <= 1

SpecRuns == InitRuns /\ [][NextRuns]_vars


(***************************************************************************)
(* getConnectedNodes(sourceNode): the paths at the other end of every link *)
(* of the link force that starts at the node, else ends at it.             *)
(***************************************************************************)
getConnectedNodes_outgoingOnly(sourceNode) ==
    {links[j].target : j \in {k \in DOMAIN links : links[k].source = sourceNode.path}}

getConnectedNodes(sourceNode) ==
    {links[j].target : j \in {k \in DOMAIN links : links[k].source = sourceNode.path}}
    \cup
    {links[j].source : j \in {k \in DOMAIN links :
                                /\ links[k].source # sourceNode.path
                                /\ links[k].target = sourceNode.path}}

(***************************************************************************)
(* getConnectedLinks(sourceNode): the links that start or end at the node. *)
(***************************************************************************)
getConnectedLinks(sourceNode) ==
    {j \in DOMAIN links :
        \/ links[j].source = sourceNode.path
        \/ links[j].target = sourceNode.path}

(***************************************************************************)
(* The mouseover handler, for an event whose target is a circle (any other *)
(* target returns at once): dim every node, highlight the hovered node and *)
(* its connected nodes, show the hovered node's label, dim every link,     *)
(* highlight the connected links.                                          *)
(***************************************************************************)
mouseover(i) ==
    LET d == nodes[i]
        connectedNodes == getConnectedNodes(d)
        connectedLinks == getConnectedLinks(d)
        dimmed == [k \in DOMAIN nodeView |->
                     [nodeView[k] EXCEPT !.opacity = <<NodeDimOpacity>>]]
        lit == [k \in DOMAIN nodeView |->
                  IF nodes[k].path = d.path \/ nodes[k].path \in connectedNodes
                  THEN [dimmed[k] EXCEPT !.opacity = <<NodeHighlightOpacity>>,
                                         !.fill = <<d.active>>]
                  ELSE dimmed[k]]
    IN  /\ nodeView' = [lit EXCEPT ![i].textOpacity = LabelShown,
                                   ![i].fontSize = HoverFontSize]
        /\ linkView' = [j \in DOMAIN linkView |->
                          IF j \in connectedLinks
                          THEN [linkView[j] EXCEPT
                                   !.opacity = <<LinkHighlightOpacity>>,
                                   !.stroke = <<LinkHighlightStroke>>,
                                   !.strokeWidth = <<HighlightStrokeWidth>>]
                          ELSE [linkView[j] EXCEPT
                                   !.opacity = <<LinkDimOpacity>>,
                                   !.stroke = <<LinkStroke>>,
                                   !.strokeWidth = <<DimStrokeWidth>>]]

(***************************************************************************)
(* The mouseout handler, for an event whose target is a circle: reset all  *)
(* nodes, hide all text, reset all links.                                  *)
(***************************************************************************)
mouseout_textKept ==
    /\ nodeView' = [k \in DOMAIN nodeView |->
                      [nodeView[k] EXCEPT !.opacity = <<NodeHighlightOpacity>>,
                                          !.fill = <<nodes[k].inactive>>]]
    /\ linkView' = [j \in DOMAIN linkView |->
                      [linkView[j] EXCEPT !.opacity = <<LinkOpacity>>,
                                          !.stroke = <<LinkStroke>>,
                                          !.strokeWidth = <<ResetStrokeWidth>>]]

mouseout ==
    /\ nodeView' = [k \in DOMAIN nodeView |->
                      [nodeView[k] EXCEPT !.opacity = <<NodeHighlightOpacity>>,
                                          !.fill = <<nodes[k].inactive>>,
                                          !.textOpacity = LabelHidden,
                                          !.fontSize = NodeFontSize]]
    /\ linkView' = [j \in DOMAIN linkView |->
                      [linkView[j] EXCEPT !.opacity = <<LinkOpacity>>,
                                          !.stroke = <<LinkStroke>>,
                                          !.strokeWidth = <<ResetStrokeWidth>>]]

(***************************************************************************)
(* The pointer enters the circle of node i.  The browser delivers the      *)
(* mouseout of the element the pointer leaves before the next mouseover.   *)
(***************************************************************************)
MouseOver(i) ==
    /\ phase = "ready"
    /\ over = <<>>
    /\ i \in DOMAIN nodes
    /\ mouseover(i)
    /\ over' = <<i>>
    /\ preHover' = <<EffectiveView>>
    /\ lastEvent' = "mouseover"
    /\ request' = <<>>
    /\ UNCHANGED <<runs, serverVars>>
    /\ UNCHANGED <<rawData, tags, svg, still, phase, nodes, links, pos, fix, alphaTarget,
                   alpha, running, ticks, forces, config, storage, woken, gestures,
                   lastPtr>>

(***************************************************************************)
(* The pointer leaves the circle it is over.                               *)
(***************************************************************************)
MouseOut_unpins ==
    /\ phase = "ready"
    /\ over # <<>>
    /\ mouseout
    /\ over' = <<>>
    /\ fix' = [i \in DOMAIN fix |-> [fx |-> <<>>, fy |-> <<>>]]
    /\ lastEvent' = "mouseout"
    /\ request' = <<>>
    /\ UNCHANGED <<runs, serverVars>>
    /\ UNCHANGED <<rawData, tags, svg, still, phase, nodes, links, pos, alphaTarget,
                   alpha, running, ticks, forces, config, storage, woken, gestures,
                   preHover, lastPtr>>

MouseOut ==
    /\ phase = "ready"
    /\ over # <<>>
    /\ mouseout
    /\ over' = <<>>
    /\ lastEvent' = "mouseout"
    /\ request' = <<>>
    /\ UNCHANGED <<runs, serverVars>>
    /\ UNCHANGED <<rawData, tags, svg, still, phase, nodes, links, pos, fix, alphaTarget,
                   alpha, running, ticks, forces, config, storage, woken, gestures,
                   preHover, lastPtr>>

(***************************************************************************)
(* The drag behaviour.  d3-drag keeps one gesture per pointer identifier   *)
(* (the mouse, each touch); event.active is the number of the other active *)
(* gestures.  Several gestures can have the same node as their subject.    *)
(***************************************************************************)
ActiveGestures == {g \in GestureIds : gestures[g] # <<>>}

dragstarted_noRestart(active, i) ==
    /\ IF active = 0
       THEN alphaTarget' = DragAlphaTarget /\ UNCHANGED running
       ELSE UNCHANGED <<alphaTarget, running>>
    /\ fix' = [fix EXCEPT ![i] = [fx |-> <<pos[i].x>>, fy |-> <<pos[i].y>>]]

dragstarted(active, i) ==
    /\ IF active = 0
       THEN alphaTarget' = DragAlphaTarget /\ running' = TRUE
       ELSE UNCHANGED <<alphaTarget, running>>
    /\ fix' = [fix EXCEPT ![i] = [fx |-> <<pos[i].x>>, fy |-> <<pos[i].y>>]]

dragged_stale(p, i) == UNCHANGED fix

dragged(p, i) ==
    fix' = [fix EXCEPT ![i] = [fx |-> <<p.x>>, fy |-> <<p.y>>]]

dragended(active, i) ==
    /\ IF active = 0
       THEN alphaTarget' = RestAlphaTarget
       ELSE UNCHANGED alphaTarget
    /\ fix' = [fix EXCEPT ![i] = [fx |-> <<>>, fy |-> <<>>]]

(***************************************************************************)
(* handleNodeClick(event): one synchronous GET of open?file= and the       *)
(* absPath of the datum of the element clicked; a value that is undefined  *)
(* is sent as the text "undefined".                                        *)
(***************************************************************************)
handleNodeClick(datum) ==
    request' = <<[url  |-> "open",
                  file |-> IF datum.absPath # <<>>
                           THEN datum.absPath[1]
                           ELSE <<"undefined">>]>>

(***************************************************************************)
(* The pointer of gesture g goes down on node i, moves, and goes up.  The  *)
(* browser dispatches the click after the up, and d3-drag suppresses it    *)
(* when the pointer has left the place where it went down (clickDistance   *)
(* is left at 0).                                                          *)
(***************************************************************************)
DragStart(g, i) ==
    /\ phase = "ready"
    /\ gestures[g] = <<>>
    /\ i \in DOMAIN nodes
    /\ dragstarted(Cardinality(ActiveGestures), i)
    /\ gestures' = [gestures EXCEPT ![g] = <<i>>]
    /\ still' = [still EXCEPT ![g] = <<pos[i]>>]
    /\ lastPtr' = [lastPtr EXCEPT ![i] = <<pos[i]>>]
    /\ lastEvent' = "dragstart"
    /\ request' = <<>>
    /\ UNCHANGED <<runs, serverVars>>
    /\ UNCHANGED <<rawData, tags, svg, phase, nodes, links, pos, alpha, ticks, forces,
                   config, storage, woken, nodeView, linkView, over, preHover>>

Drag(g, p) ==
    /\ phase = "ready"
    /\ gestures[g] # <<>>
    /\ dragged(p, gestures[g][1])
    /\ still' = [still EXCEPT ![g] = IF still[g] = <<p>> THEN <<p>> ELSE <<>>]
    /\ lastPtr' = [lastPtr EXCEPT ![gestures[g][1]] = <<p>>]
    /\ lastEvent' = "drag"
    /\ request' = <<>>
    /\ UNCHANGED <<runs, serverVars>>
    /\ UNCHANGED <<rawData, tags, svg, phase, nodes, links, pos, alphaTarget, alpha,
                   running, ticks, forces, config, storage, woken, gestures,
                   nodeView, linkView, over, preHover>>

DragEnd(g) ==
    /\ phase = "ready"
    /\ gestures[g] # <<>>
    /\ dragended(Cardinality(ActiveGestures \ {g}), gestures[g][1])
    /\ gestures' = [gestures EXCEPT ![g] = <<>>]
    /\ still' = [still EXCEPT ![g] = <<>>]
    /\ lastPtr' = [lastPtr EXCEPT ![gestures[g][1]] = <<>>]
    /\ IF still[g] # <<>>
       THEN handleNodeClick(nodes[gestures[g][1]]) /\ lastEvent' = "click"
       ELSE request' = <<>> /\ lastEvent' = "dragend"
    /\ UNCHANGED <<runs, serverVars>>
    /\ UNCHANGED <<rawData, tags, svg, phase, nodes, links, pos, alpha, running,
                   ticks, forces, config, storage, woken, nodeView, linkView, over,
                   preHover>>

(***************************************************************************)
(* One step of the simulation's timer: the energy moves towards its target *)
(* by alphaDecay of the difference, the forces move every node that is not *)
(* fixed, and a node with fx (fy) set has its x (y) reset to it.  The step *)
(* that leaves the energy below the minimum stops the timer.               *)
(***************************************************************************)
nextAlpha_frozen(a, target) == a

nextAlpha(a, target) == a + ((target - a) * AlphaDecayPercent) \div 100

Tick ==
    /\ phase = "ready"
    /\ running
    /\ \E moved \in [DOMAIN nodes -> Points] :
          pos' = [i \in DOMAIN nodes |->
                    [x |-> IF fix[i].fx = <<>> THEN moved[i].x ELSE fix[i].fx[1],
                     y |-> IF fix[i].fy = <<>> THEN moved[i].y ELSE fix[i].fy[1]]]
    /\ alpha' = nextAlpha(alpha, alphaTarget)
    /\ running' = ~(alpha' < AlphaMin)
    /\ ticks' = IF ticks < MaxTicks THEN ticks + 1 ELSE ticks
    /\ lastEvent' = "tick"
    /\ request' = <<>>
    /\ UNCHANGED <<runs, serverVars>>
    /\ UNCHANGED <<rawData, tags, svg, still, phase, nodes, links, fix, alphaTarget, forces,
                   config, storage, woken, gestures, nodeView, linkView, over,
                   preHover, lastPtr>>

(***************************************************************************)
(* updateConfig(category, param, value), the onChange of a slider: the new *)
(* config is stored and saved; then the strengths of all four forces are   *)
(* set from it, alpha(0.3).restart(), and every circle's r is set.  Before *)
(* initialize has set up the simulation, graph.simulation is null and the  *)
(* handler ends there with a TypeError.                                    *)
(***************************************************************************)
ConfigAlpha == 300

updateConfig_noRestart(category, param, value) ==
    LET newConfig == [config EXCEPT ![category][param] = value]
    IN  /\ config' = newConfig
        /\ storage' = <<newConfig>>
        /\ IF phase = "ready"
           THEN /\ forces' = applyForces(newConfig, nodes)
                /\ alpha' = ConfigAlpha
                /\ UNCHANGED running
                /\ nodeView' = [i \in DOMAIN nodeView |->
                                   [nodeView[i] EXCEPT !.r = radius(newConfig, nodes[i])]]
           ELSE UNCHANGED <<forces, alpha, running, nodeView>>

updateConfig(category, param, value) ==
    LET newConfig == [config EXCEPT ![category][param] = value]
    IN  /\ config' = newConfig
        /\ storage' = <<newConfig>>
        /\ IF phase = "ready"
           THEN /\ forces' = applyForces(newConfig, nodes)
                /\ alpha' = ConfigAlpha
                /\ running' = TRUE
                /\ nodeView' = [i \in DOMAIN nodeView |->
                                   [nodeView[i] EXCEPT !.r = radius(newConfig, nodes[i])]]
           ELSE UNCHANGED <<forces, alpha, running, nodeView>>

\* A slider fires onChange when its value changes.
UpdateConfig(slider, value) ==
    /\ config[slider.category][slider.param] # value
    /\ updateConfig(slider.category, slider.param, value)
    /\ woken' = (phase = "ready" /\ ~running)
    /\ lastEvent' = "updateConfig"
    /\ request' = <<>>
    /\ UNCHANGED <<runs, serverVars>>
    /\ UNCHANGED <<rawData, tags, svg, still, phase, nodes, links, pos, fix, alphaTarget, ticks,
                   gestures, linkView, over, preHover, lastPtr>>

(***************************************************************************)
(* resetConfig(): the saved config is removed, the config state is set to  *)
(* defaultConfig, and updateConfig is called once per option, in this      *)
(* order, with the option's default.  Each of the calls builds newConfig   *)
(* from the config of the render the handler belongs to (React's state     *)
(* setter does not change the const the closure holds); of the calls of    *)
(* setConfig of one handler the last one decides the state.  Before the    *)
(* simulation is set up the first call ends the handler with a TypeError,  *)
(* after its setConfig and its setItem.                                    *)
(***************************************************************************)
ResetCalls ==
    <<[category |-> "forces", param |-> "repelForce"],
      [category |-> "forces", param |-> "linkForce"],
      [category |-> "forces", param |-> "centerForce"],
      [category |-> "forces", param |-> "linkDistance"],
      [category |-> "node", param |-> "baseRadius"],
      [category |-> "node", param |-> "radiusMultiplier"]>>

\* One call of updateConfig from a handler whose closure holds `closure`,
\* on what the handler has done so far.
updateConfigCall(closure, done, call) ==
    LET newConfig == [closure EXCEPT ![call.category][call.param] =
                                         defaultConfig[call.category][call.param]]
    IN  IF done.thrown THEN done
        ELSE IF phase = "ready"
        THEN [config  |-> newConfig,
              storage |-> <<newConfig>>,
              forces  |-> applyForces(newConfig, nodes),
              alpha   |-> ConfigAlpha,
              running |-> TRUE,
              r       |-> [i \in DOMAIN nodes |-> radius(newConfig, nodes[i])],
              thrown  |-> FALSE]
        ELSE [done EXCEPT !.config = newConfig, !.storage = <<newConfig>>,
                          !.thrown = TRUE]

RECURSIVE updateConfigCalls(_, _, _)
updateConfigCalls(closure, done, calls) ==
    IF calls = <<>> THEN done
    ELSE updateConfigCalls(closure, updateConfigCall(closure, done, Head(calls)),
                           Tail(calls))

resetConfig ==
    LET removed == [config  |-> defaultConfig,
                    storage |-> <<>>,
                    forces  |-> forces,
                    alpha   |-> alpha,
                    running |-> running,
                    r       |-> [i \in DOMAIN nodeView |-> nodeView[i].r],
                    thrown  |-> FALSE]
        done == updateConfigCalls(config, removed, ResetCalls)
    IN  /\ config' = done.config
        /\ storage' = done.storage
        /\ forces' = done.forces
        /\ alpha' = done.alpha
        /\ running' = done.running
        /\ nodeView' = [i \in DOMAIN nodeView |-> [nodeView[i] EXCEPT !.r = done.r[i]]]

\* The Reset button is clicked.
ResetConfig ==
    /\ resetConfig
    /\ woken' = (phase = "ready" /\ ~running)
    /\ lastEvent' = "resetConfig"
    /\ request' = <<>>
    /\ UNCHANGED <<runs, serverVars>>
    /\ UNCHANGED <<rawData, tags, svg, still, phase, nodes, links, pos, fix, alphaTarget, ticks,
                   gestures, linkView, over, preHover, lastPtr>>

(***************************************************************************)
(* The server.  generate_graph() starts the export command, which runs on  *)
(* its own until its callback, and, with a subscriber stored, writes the   *)
(* refresh at once.  It is called when the module loads and by fs.watch.   *)
(***************************************************************************)
ClientIds == 1..MaxClients

sendRefresh(k) == refresh' = <<[generation |-> k, to |-> client[1]]>>

generate_graph(k) ==
    /\ exports' = exports \cup {k}
    /\ IF client # <<>> THEN sendRefresh(k) ELSE refresh' = <<>>

\* fs.watch reports a change in the notebook's directory.
DirChange ==
    /\ generation < MaxGenerations
    /\ generation' = generation + 1
    /\ generate_graph(generation + 1)
    /\ UNCHANGED <<client, subscribers>>
    /\ UNCHANGED browserVars

\* The export command of call k ends: graph.json is written, puts logs.
ExportDone(k) ==
    /\ k \in exports
    /\ exports' = exports \ {k}
    /\ refresh' = <<>>
    /\ UNCHANGED <<client, subscribers, generation>>
    /\ UNCHANGED browserVars

\* GET /subscribe on a new connection c.
Subscribe(c) ==
    /\ c \notin subscribers
    /\ subscribers' = subscribers \cup {c}
    /\ client' = <<c>>
    /\ refresh' = <<>>
    /\ UNCHANGED <<generation, exports>>
    /\ UNCHANGED browserVars

\* The "close" of the request of subscriber c.
Close(c) ==
    /\ c \in subscribers
    /\ subscribers' = subscribers \ {c}
    /\ client' = <<>>
    /\ refresh' = <<>>
    /\ UNCHANGED <<generation, exports>>
    /\ UNCHANGED browserVars

(***************************************************************************)
(* Specifications.  SpecBuild: the load and the build, over all documents. *)
(* SpecHover: the build and the hover handlers, over the documents with at *)
(* most one tag.  Spec: every handler, the simulation step and the server, *)
(* over the document of two linked notes; the specifications after it take *)
(* the handlers one group at a time.                                       *)
(***************************************************************************)
InitHover == WellFormedInit /\ storage = <<>> /\ Len(tags) <= 1

NextHover ==
    \/ InitializeOk
    \/ InitializeFail
    \/ \E i \in 1..(MaxNotes + MaxTags) : MouseOver(i)
    \/ MouseOut

SpecHover == InitHover /\ [][NextHover]_vars

InitDrag ==
    /\ Init
    /\ storage = <<>>
    /\ rawData = [notes |-> <<Note("a", <<>>),
                              Note("b", <<>>)>>,
                  links |-> <<[sourcePath |-> "a", targetPath |-> "b"]>>]
    /\ tags = <<>>

Next ==
    \/ InitializeOk
    \/ InitializeFail
    \/ ProcessGraphData
    \/ \E i \in 1..(MaxNotes + MaxTags) : MouseOver(i)
    \/ MouseOut
    \/ \E g \in GestureIds, i \in 1..(MaxNotes + MaxTags) : DragStart(g, i)
    \/ \E g \in GestureIds, p \in Points : Drag(g, p)
    \/ \E g \in GestureIds : DragEnd(g)
    \/ Tick
    \/ \E slider \in Sliders : \E value \in SliderValues(slider.param) :
          UpdateConfig(slider, value)
    \/ ResetConfig
    \/ DirChange
    \/ \E k \in 1..MaxGenerations : ExportDone(k)
    \/ \E c \in ClientIds : Subscribe(c)
    \/ \E c \in ClientIds : Close(c)

Spec == InitDrag /\ [][Next]_vars


(***************************************************************************)
(* SpecSettle: the load and the simulation's timer alone, nothing touching *)
(* the simulation from outside.  d3's timer calls the step on every frame  *)
(* for as long as it runs, hence the weak fairness of Tick.                *)
(***************************************************************************)
NextSettle ==
    \/ InitializeOk
    \/ InitializeFail
    \/ Tick

SpecSettle == InitDrag /\ [][NextSettle]_vars /\ WF_vars(Tick)

(***************************************************************************)
(* SpecDrag: the load, the drag handlers and the first MaxTicks steps of   *)
(* the simulation, over the document of two linked notes.                  *)
(***************************************************************************)
NextDrag ==
    \/ InitializeOk
    \/ InitializeFail
    \/ \E g \in GestureIds, i \in 1..(MaxNotes + MaxTags) : DragStart(g, i)
    \/ \E g \in GestureIds, p \in Points : Drag(g, p)
    \/ \E g \in GestureIds : DragEnd(g)
    \/ ticks < MaxTicks /\ Tick

SpecDrag == InitDrag /\ [][NextDrag]_vars

(***************************************************************************)
(* SpecEnergy: the load, the pointers going down and up (their moves do    *)
(* not touch the energy) and the simulation's timer to rest and back, over *)
(* the document of one note that links to itself.                          *)
(***************************************************************************)
InitSolo ==
    /\ Init
    /\ storage = <<>>
    /\ rawData = [notes |-> <<Note("a", <<>>)>>,
                  links |-> <<[sourcePath |-> "a", targetPath |-> "a"]>>]
    /\ tags = <<>>

NextEnergy ==
    \/ InitializeOk
    \/ InitializeFail
    \/ \E g \in GestureIds, i \in 1..(MaxNotes + MaxTags) : DragStart(g, i)
    \/ \E g \in GestureIds : DragEnd(g)
    \/ Tick

SpecEnergy == InitSolo /\ [][NextEnergy]_vars /\ WF_vars(Tick)

(***************************************************************************)
(* SpecConfig: the load, the sliders and the simulation's timer, over the  *)
(* document of two notes of which the first links to both, with and        *)
(* without a config saved by an earlier visit.                             *)
(***************************************************************************)
InitConfig ==
    /\ Init
    /\ rawData = [notes |-> <<Note("a", <<>>),
                              Note("b", <<>>)>>,
                  links |-> <<[sourcePath |-> "a", targetPath |-> "b"],
                              [sourcePath |-> "a", targetPath |-> "a"]>>]
    /\ tags = <<>>

NextConfig ==
    \/ InitializeOk
    \/ InitializeFail
    \/ Tick
    \/ \E slider \in Sliders : \E value \in SliderValues(slider.param) :
          UpdateConfig(slider, value)

SpecConfig == InitConfig /\ [][NextConfig]_vars

(***************************************************************************)
(* SpecCenter: the load and the force sliders, over the documents without  *)
(* tags; among them the documents whose notes have no link at all.         *)
(***************************************************************************)
InitCenter ==
    /\ WellFormedInit
    /\ storage = <<>>
    /\ tags = <<>>
    /\ \A i \in DOMAIN rawData.notes : rawData.notes[i].tags = <<>>

NextCenter ==
    \/ InitializeOk
    \/ InitializeFail
    \/ \E slider \in Sliders : \E value \in SliderValues(slider.param) :
          slider.category = "forces" /\ UpdateConfig(slider, value)

SpecCenter == InitCenter /\ [][NextCenter]_vars

(***************************************************************************)
(* SpecLoad: the load and the build, over the documents with at most one   *)
(* tag and over documents of the wrong shape: a graph document without     *)
(* notes or without links, a note without tags, a null in the tag list.    *)
(***************************************************************************)
InitLoad ==
    /\ Init
    /\ storage = <<>>
    /\ \/ rawData \in MalformedRawDatas
       \/ tags \in MalformedTagLists
       \/ Len(tags) <= 1

NextLoad == InitializeOk \/ InitializeFail

SpecLoad == InitLoad /\ [][NextLoad]_vars

(***************************************************************************)
(* SpecClick: the load and the pointers, over the document of one note     *)
(* that carries the one tag; the graph has the note's node and the tag's.  *)
(***************************************************************************)
InitClick ==
    /\ Init
    /\ storage = <<>>
    /\ rawData = [notes |-> <<Note("a", <<"proj">>)>>, links |-> <<>>]
    /\ tags = <<[name |-> "proj"]>>

NextClick ==
    \/ InitializeOk
    \/ InitializeFail
    \/ \E g \in GestureIds, i \in 1..(MaxNotes + MaxTags) : DragStart(g, i)
    \/ \E g \in GestureIds, p \in Points : Drag(g, p)
    \/ \E g \in GestureIds : DragEnd(g)

SpecClick == InitClick /\ [][NextClick]_vars

(***************************************************************************)
(* SpecServer: the server alone, the page not yet loaded.                  *)
(***************************************************************************)
NextServer ==
    \/ DirChange
    \/ \E k \in 1..MaxGenerations : ExportDone(k)
    \/ \E c \in ClientIds : Subscribe(c)
    \/ \E c \in ClientIds : Close(c)

SpecServer == InitDrag /\ [][NextServer]_vars

(***************************************************************************)
(* SpecPanel: the load, the sliders and the Reset button, over the         *)
(* document of SpecConfig, with and without a config saved by an earlier   *)
(* visit.                                                                  *)
(***************************************************************************)
NextPanel ==
    \/ InitializeOk
    \/ InitializeFail
    \/ \E slider \in Sliders : \E value \in SliderValues(slider.param) :
          UpdateConfig(slider, value)
    \/ ResetConfig

SpecPanel == InitConfig /\ [][NextPanel]_vars

(***************************************************************************)
(* SpecFocus: the hover handlers and the drag handlers together, over the  *)
(* document of two linked notes, between two steps of the simulation.  The *)
(* pointer that hovers (the mouse) and the pointers that drag (the mouse,  *)
(* touches) are delivered independently of one another.                    *)
(***************************************************************************)
NextFocus ==
    \/ InitializeOk
    \/ InitializeFail
    \/ \E i \in 1..(MaxNotes + MaxTags) : MouseOver(i)
    \/ MouseOut
    \/ \E g \in GestureIds, i \in 1..(MaxNotes + MaxTags) : DragStart(g, i)
    \/ \E g \in GestureIds, p \in Points : Drag(g, p)
    \/ \E g \in GestureIds : DragEnd(g)

SpecFocus == InitDrag /\ [][NextFocus]_vars

(***************************************************************************)
(* Vocabulary of the properties, computed from the documents and from the  *)
(* returned lists, not from the builder's intermediate values.             *)
(***************************************************************************)
KnownPaths == {rawData.notes[i].path : i \in DOMAIN rawData.notes}

ValidRaw ==
    {k \in DOMAIN rawData.links :
        /\ rawData.links[k].sourcePath \in KnownPaths
        /\ rawData.links[k].targetPath \in KnownPaths}

Rank(k) == Cardinality({m \in ValidRaw : m <= k})

Carriers(t) ==
    {i \in DOMAIN rawData.notes :
        \E m \in DOMAIN rawData.notes[i].tags : rawData.notes[i].tags[m] = t}

Occurrences(t) == Cardinality({k \in DOMAIN tags : tags[k].name = t})

SyntheticIdx == (Cardinality(ValidRaw) + 1)..Len(links)

RECURSIVE CarriedUpTo(_)
CarriedUpTo(k) ==
    IF k = 0 THEN 0 ELSE Cardinality(Carriers(tags[k].name)) + CarriedUpTo(k - 1)

IncidentLinks(p) == {j \in DOMAIN links : links[j].source = p \/ links[j].target = p}

IncidentCount(p) ==
    Cardinality({j \in DOMAIN links : links[j].source = p})
    + Cardinality({j \in DOMAIN links : links[j].target = p})

Neighbours(p) ==
    {q \in {nodes[i].path : i \in DOMAIN nodes} :
        \E j \in DOMAIN links :
            \/ links[j].source = p /\ links[j].target = q
            \/ links[j].target = p /\ links[j].source = q}

RECURSIVE SumConnections(_)
SumConnections(ns) ==
    IF ns = <<>> THEN 0 ELSE Head(ns).connections + SumConnections(Tail(ns))

Pinned(i) == fix[i].fx # <<>> \/ fix[i].fy # <<>>

Dragged(i) == \E g \in GestureIds : gestures[g] = <<i>>

(***************************************************************************)
(* C1.  After processGraphData, every returned link, retained or           *)
(* synthetic, has its source and its target among the paths of the         *)
(* returned nodes.                                                         *)
(***************************************************************************)
C1_NoDanglingLinks ==
    phase = "ready" =>
        \A j \in DOMAIN links :
            /\ \E i \in DOMAIN nodes : nodes[i].path = links[j].source
            /\ \E i \in DOMAIN nodes : nodes[i].path = links[j].target

\* A build that dropped a link to "x", kept a -> b and added a link of tag proj.
C1_Witness ==
    /\ phase = "ready"
    /\ \E k \in DOMAIN rawData.links : rawData.links[k].targetPath = "x"
    /\ \E j \in DOMAIN links : links[j] = [source |-> "a", target |-> "b"]
    /\ \E j \in DOMAIN links : links[j].source = "proj"

(***************************************************************************)
(* C2.  After processGraphData with tag expansion, connections of every    *)
(* returned node equals the number of returned links incident to it, one   *)
(* per endpoint, and the connections sum to twice the number of links.     *)
(***************************************************************************)
C2_DegreesMatchLinks ==
    phase = "ready" =>
        /\ \A i \in DOMAIN nodes : nodes[i].connections = IncidentCount(nodes[i].path)
        /\ SumConnections(nodes) = 2 * Len(links)

(***************************************************************************)
(* C3.  A raw link is retained iff both its sourcePath and its targetPath  *)
(* are note paths: the returned list starts with exactly the raw links of  *)
(* known endpoints, in their order, and holds nothing else but the links   *)
(* of the tags; a link with an unknown endpoint does not stop the build.   *)
(***************************************************************************)
C3_RetainedIffBothKnown ==
    phase = "ready" =>
        /\ Len(links) = Cardinality(ValidRaw) + CarriedUpTo(Len(tags))
        /\ \A k \in ValidRaw :
              links[Rank(k)] = [source |-> rawData.links[k].sourcePath,
                                target |-> rawData.links[k].targetPath]
        /\ \A j \in SyntheticIdx : \E k \in DOMAIN tags : links[j].source = tags[k].name

\* Notes a, b, c with links a -> b and b -> x: exactly a -> b is returned.
C3_Witness ==
    /\ phase = "ready"
    /\ Len(rawData.notes) = 3
    /\ rawData.links = <<[sourcePath |-> "a", targetPath |-> "b"],
                         [sourcePath |-> "b", targetPath |-> "x"]>>
    /\ links = <<[source |-> "a", target |-> "b"]>>

(***************************************************************************)
(* C4.  For each tag of the tag list the builder emits one tag node whose  *)
(* path is the tag's name and whose connections is the number of notes     *)
(* carrying the tag, and one synthetic link (tag, note) for every note     *)
(* carrying the tag and for no other note.  (A name listed twice is two    *)
(* tags of the list, each with its node and its links.)                    *)
(***************************************************************************)
C4_TagExpansion ==
    phase = "ready" =>
        /\ Cardinality({i \in DOMAIN nodes : nodes[i].type = "tag"}) = Len(tags)
        /\ \A k \in DOMAIN tags :
              LET tagNd == nodes[Len(rawData.notes) + k]
              IN  /\ tagNd.type = "tag"
                  /\ tagNd.path = tags[k].name
                  /\ tagNd.connections = Cardinality(Carriers(tags[k].name))
        /\ \A t \in TagNames, i \in DOMAIN rawData.notes :
              Cardinality({j \in SyntheticIdx :
                              links[j] = [source |-> t,
                                          target |-> rawData.notes[i].path]})
                = IF i \in Carriers(t) THEN Occurrences(t) ELSE 0
        /\ \A j \in SyntheticIdx : links[j].target \in KnownPaths

\* Tag proj on notes a and b, not on c: links (proj,a), (proj,b), connections 2.
C4_Witness ==
    /\ phase = "ready"
    /\ tags = <<[name |-> "proj"]>>
    /\ Carriers("proj") = {1, 2}
    /\ Len(rawData.notes) = 3
    /\ rawData.links = <<>>
    /\ links = <<[source |-> "proj", target |-> "a"],
                 [source |-> "proj", target |-> "b"]>>
    /\ nodes[4].path = "proj" /\ nodes[4].connections = 2

(***************************************************************************)
(* C5.  The paths of the returned nodes are pairwise distinct; a tag name  *)
(* listed twice yields a single tag node.                                  *)
(***************************************************************************)
C5_UniqueIdentities ==
    phase = "ready" =>
        \A i, j \in DOMAIN nodes : i # j => nodes[i].path # nodes[j].path

(***************************************************************************)
(* C6.  If a tag name equals the path of a note, the build fails: no       *)
(* snapshot is produced and nothing is rendered.                           *)
(***************************************************************************)
C6_CollisionAborts ==
    (/\ phase # "start"
     /\ \E k \in DOMAIN tags : tags[k].name \in KnownPaths)
        => (phase = "failed" /\ nodes = <<>> /\ nodeView = <<>>)

(***************************************************************************)
(* C7.  While the pointer is over the circle of node n with neighbour set  *)
(* S: exactly the nodes of {n} \cup S are at full opacity and the others   *)
(* are dimmed; exactly the links incident to n are highlighted and the     *)
(* others dimmed.  After the pointer left, all nodes have one opacity.     *)
(***************************************************************************)
C7_HoverHighlight ==
    /\ (phase = "ready" /\ over # <<>>) =>
          LET n == nodes[over[1]].path
          IN  /\ \A k \in DOMAIN nodes :
                    NodeOpacity(k) =
                        IF nodes[k].path \in ({n} \cup Neighbours(n))
                        THEN NodeHighlightOpacity ELSE NodeDimOpacity
              /\ \A j \in DOMAIN links :
                    IF j \in IncidentLinks(n)
                    THEN /\ LinkOpacityOf(j) = LinkHighlightOpacity
                         /\ LinkStrokeOf(j) = LinkHighlightStroke
                    ELSE /\ LinkOpacityOf(j) = LinkDimOpacity
                         /\ LinkStrokeOf(j) = LinkStroke
    /\ lastEvent = "mouseout" =>
          \A k1, k2 \in DOMAIN nodes : NodeOpacity(k1) = NodeOpacity(k2)

\* Hovering the target end of a link: its source is lit through the link,
\* another node and another link are dimmed.
C7_Witness ==
    /\ phase = "ready"
    /\ over # <<>>
    /\ \E j \in DOMAIN links :
          /\ links[j].target = nodes[over[1]].path
          /\ links[j].source # nodes[over[1]].path
          /\ \E k \in DOMAIN nodes :
                nodes[k].path = links[j].source /\ NodeOpacity(k) = NodeHighlightOpacity
    /\ \E k \in DOMAIN nodes : NodeOpacity(k) = NodeDimOpacity
    /\ \E j \in DOMAIN links : LinkOpacityOf(j) = LinkDimOpacity

(***************************************************************************)
(* C8.  A hover-enter followed by the hover-leave restores the view that   *)
(* was drawn before the hover: node opacity and fill, link opacity, stroke *)
(* and stroke width are as before, and every label is hidden.              *)
(***************************************************************************)
C8_HoverRoundTrip ==
    lastEvent = "mouseout" =>
        /\ EffectiveView = preHover[1]
        /\ \A k \in DOMAIN nodeView : nodeView[k].textOpacity = LabelHidden

(***************************************************************************)
(* C9.  After a simulation step, every pinned node is exactly at the       *)
(* coordinate of the last drag event on it (the position captured at the   *)
(* drag start if the pointer has not moved), wherever the forces push.     *)
(***************************************************************************)
C9_PinnedFollowsPointer ==
    (phase = "ready" /\ lastEvent = "tick") =>
        \A i \in DOMAIN nodes :
            Pinned(i) => (lastPtr[i] # <<>> /\ pos[i] = lastPtr[i][1])

\* A step found a node pinned where the pointer moved it, away from its seed.
C9_Witness ==
    /\ phase = "ready"
    /\ lastEvent = "tick"
    /\ \E i \in DOMAIN nodes :
          /\ Pinned(i)
          /\ pos[i] = lastPtr[i][1]
          /\ pos[i] # SeedPoint(i)
          /\ \E k \in DOMAIN nodes : ~Pinned(k) /\ pos[k] # SeedPoint(k)

(***************************************************************************)
(* C10.  A node has a pinned position if and only if it is being dragged.  *)
(***************************************************************************)
C10_PinnedIffDragged ==
    phase = "ready" => \A i \in DOMAIN nodes : Pinned(i) <=> Dragged(i)

(***************************************************************************)
(* C11.  With nothing touching the simulation after setup, the energy      *)
(* starts at 0.5 and strictly decreases with every step, the timer stops   *)
(* exactly when a step leaves the energy below the minimum, and that       *)
(* happens after finitely many steps.                                      *)
(***************************************************************************)
Settled == phase = "ready" /\ ~running

C11_EnergyDecaysToRest ==
    /\ []((phase = "ready" /\ lastEvent = "initialize") => alpha = InitialAlpha /\ running)
    /\ [][lastEvent' = "tick" => alpha' < alpha]_vars
    /\ [](phase = "ready" => (running <=> alpha >= AlphaMin))
    /\ ((phase = "ready") ~> Settled)

\* The step that stopped the timer.
C11_Witness ==
    /\ Settled
    /\ lastEvent = "tick"
    /\ alpha < AlphaMin
    /\ alphaTarget = RestAlphaTarget

(***************************************************************************)
(* C12.  Every drag start leaves the energy target at 0.3 and the timer    *)
(* running, also when the simulation was Settled; while a drag is active   *)
(* the simulation is not Settled; with no drag active the target is 0, and *)
(* from then on the simulation becomes Settled unless a drag starts.       *)
(***************************************************************************)
C12_DragKeepsSimulationAwake ==
    /\ [][lastEvent' = "dragstart" => alphaTarget' = DragAlphaTarget /\ running']_vars
    /\ []((phase = "ready" /\ ActiveGestures # {}) =>
              ~Settled /\ alphaTarget = DragAlphaTarget)
    /\ []((phase = "ready" /\ ActiveGestures = {}) => alphaTarget = RestAlphaTarget)
    /\ ((phase = "ready" /\ ActiveGestures = {}) ~> (Settled \/ ActiveGestures # {}))

\* A drag that started on the Settled simulation: the timer runs again while
\* the energy is still below the minimum.
C12_Witness ==
    /\ phase = "ready"
    /\ lastEvent = "dragstart"
    /\ alpha < AlphaMin
    /\ running
    /\ alphaTarget = DragAlphaTarget

(***************************************************************************)
(* C13.  When updateConfig changes a force option of the running graph,    *)
(* the handler itself, hence before the next step, gives the forces the    *)
(* strengths of the new config, sets the energy to 0.3 and leaves the      *)
(* timer running, also when the simulation was Settled.                    *)
(***************************************************************************)
TopConnections ==
    CHOOSE m \in 0..(2 * (MaxLinks + MaxNotes * MaxTags)) :
        /\ \A i \in DOMAIN nodes : nodes[i].connections <= m
        /\ nodes # <<>> => \E i \in DOMAIN nodes : nodes[i].connections = m

ForceOptionChanged == config'.forces # config.forces

C13_ForceChangeReheats ==
    [][(lastEvent' = "updateConfig" /\ phase = "ready" /\ ForceOptionChanged) =>
          /\ \A i \in DOMAIN nodes :
                /\ ~forces'.x[i].nan
                /\ forces'.x[i].den > 0
                /\ forces'.x[i].num * TopConnections =
                       config'.forces.centerForce
                       * (TopConnections + nodes[i].connections) * forces'.x[i].den
          /\ forces'.y = forces'.x
          /\ forces'.charge = config'.forces.repelForce
          /\ forces'.link.strength = config'.forces.linkForce
          /\ forces'.link.distance = config'.forces.linkDistance
          /\ alpha' = ConfigAlpha
          /\ running'
          /\ ~Settled']_vars

\* A repel force moved off its default on the Settled simulation.
C13_Witness ==
    /\ phase = "ready"
    /\ lastEvent = "updateConfig"
    /\ woken
    /\ running
    /\ alpha = ConfigAlpha
    /\ config.forces.repelForce # defaultConfig.forces.repelForce
    /\ forces.charge = config.forces.repelForce

(***************************************************************************)
(* C14.  When updateConfig changes a radius option of the running graph,   *)
(* every circle's radius becomes baseRadius + connections *                *)
(* radiusMultiplier of the new config, and the energy, its target and the  *)
(* timer are as they were.                                                 *)
(***************************************************************************)
RadiusOptionChanged == config'.node # config.node

RadiiFollowConfig ==
    \A i \in DOMAIN nodes :
        nodeView[i].r = config.node.baseRadius
                        + nodes[i].connections * config.node.radiusMultiplier

C14_RadiusChangeLeavesSimulation ==
    [][(lastEvent' = "updateConfig" /\ phase = "ready" /\ RadiusOptionChanged) =>
          /\ RadiiFollowConfig'
          /\ UNCHANGED <<alpha, alphaTarget, running>>]_vars

(***************************************************************************)
(* C15.  When every node of the graph has no connection, the centering     *)
(* strength of every node is a number and is exactly the base centerForce: *)
(* that of defaultConfig after setup, that of the new config after an      *)
(* update.                                                                 *)
(***************************************************************************)
AllIsolated == nodes # <<>> /\ \A i \in DOMAIN nodes : nodes[i].connections = 0

BaseCenterForce ==
    IF lastEvent = "updateConfig"
    THEN config.forces.centerForce
    ELSE defaultConfig.forces.centerForce

IsBaseStrength(s) == ~s.nan /\ s.den > 0 /\ s.num = BaseCenterForce * s.den

C15_IsolatedNodesGetBaseStrength ==
    (phase = "ready" /\ AllIsolated) =>
        \A i \in DOMAIN nodes : IsBaseStrength(forces.x[i]) /\ IsBaseStrength(forces.y[i])

(***************************************************************************)
(* C16.  A load that cannot complete, because d3.json rejects or because   *)
(* the builder throws on a document of the wrong shape, ends failed, and a *)
(* failed load has created nothing: no nodes or links, no simulation (no   *)
(* positions, forces or timer), no svg, no node or link element.           *)
(***************************************************************************)
NothingCreated ==
    /\ nodes = <<>>
    /\ links = <<>>
    /\ pos = <<>>
    /\ fix = <<>>
    /\ forces = <<>>
    /\ ~running
    /\ ~svg
    /\ nodeView = <<>>
    /\ linkView = <<>>

C16_FailedLoadCreatesNothing ==
    /\ (phase # "start" /\ processThrows(rawData, tags)) => phase = "failed"
    /\ phase = "failed" => NothingCreated
    /\ phase = "ready" => svg /\ forces # <<>>

\* The load of a graph document that has no links array has failed.
C16_Witness ==
    /\ phase = "failed"
    /\ "links" \notin DOMAIN rawData
    /\ NothingCreated

(***************************************************************************)
(* C17.  When a pointer that went down on a node goes up without having    *)
(* left its place, exactly one open request is sent and its file is the    *)
(* absPath the graph document gives for that node; when it goes up after   *)
(* having moved, no request is sent; no other event sends a request.       *)
(***************************************************************************)
ResourcePaths(i) ==
    {rawData.notes[k].absPath :
        k \in {m \in DOMAIN rawData.notes : rawData.notes[m].path = nodes[i].path}}

PointerUp(g) == gestures[g] # <<>> /\ gestures'[g] = <<>>

C17_ClickOpensResource ==
    /\ [][\A g \in GestureIds :
            PointerUp(g) =>
                IF still[g] # <<>>
                THEN /\ request' # <<>>
                     /\ request'[1].url = "open"
                     /\ request'[1].file \in ResourcePaths(gestures[g][1])
                ELSE request' = <<>>]_vars
    /\ [][(\A g \in GestureIds : ~PointerUp(g)) => request' = <<>>]_vars

(***************************************************************************)
(* C18.  Whenever a refresh is written to the subscriber, the export       *)
(* command started by the call of generate_graph that writes it has ended. *)
(***************************************************************************)
C18_RefreshAfterExport ==
    refresh # <<>> => refresh[1].generation \notin exports

ElementsOf(seq) == {seq[i] : i \in DOMAIN seq}

VisibleLabels == {i \in DOMAIN nodeView : nodeView[i].textOpacity = LabelShown}

(***************************************************************************)
(* C20: whatever mouseover and mouseout events the circles have received,  *)
(* at most one label is visible, a visible label is the label of the node  *)
(* the pointer is over, and no label is visible while the pointer is over  *)
(* no circle.                                                              *)
(***************************************************************************)
C20_OnlyFocusedLabelVisible ==
    phase = "ready" =>
        /\ Cardinality(VisibleLabels) <= 1
        /\ \A i \in VisibleLabels : over = <<i>>
        /\ over = <<>> => VisibleLabels = {}

\* The second hover of a page: a link has the width mouseout gave it.
C20_Witness ==
    /\ lastEvent = "mouseover"
    /\ Len(nodes) >= 2
    /\ VisibleLabels = {over[1]}
    /\ \E j \in DOMAIN linkView :
          /\ preHover[1].linkWidth[j] = ResetStrokeWidth
          /\ ResetStrokeWidth # InitialStrokeWidth

DragEvents == {"dragstart", "drag", "dragend", "click"}
HoverEvents == {"mouseover", "mouseout"}

LabelOpacities == [i \in DOMAIN nodeView |-> nodeView[i].textOpacity]

PinnedSet == {i \in DOMAIN nodes : Pinned(i)}

DragLeavesFocus ==
    lastEvent' \in DragEvents =>
        /\ over' = over
        /\ EffectiveView' = EffectiveView
        /\ LabelOpacities' = LabelOpacities

HoverLeavesDrag ==
    lastEvent' \in HoverEvents =>
        /\ fix' = fix
        /\ alpha' = alpha
        /\ alphaTarget' = alphaTarget

\* From any focus state and any pins, each change of the other axis can come next.
AxesFree ==
    phase = "ready" =>
        /\ \A g \in GestureIds : \A i \in DOMAIN nodes :
              IF gestures[g] = <<>> THEN ENABLED DragStart(g, i) ELSE ENABLED DragEnd(g)
        /\ \A i \in DOMAIN nodes :
              IF over = <<>> THEN ENABLED MouseOver(i) ELSE ENABLED MouseOut

(***************************************************************************)
(* C21: a drag start, drag move or drag end (with the click it may end in) *)
(* leaves the focus and the opacity, colour and label visibility of every  *)
(* node and link as they were; a mouseover or mouseout leaves every pin,   *)
(* alpha and the alpha target as they were; and whatever the focus and the *)
(* pins are, the next hover event and the next drag event can both come.   *)
(***************************************************************************)
C21_DragAndFocusIndependent ==
    /\ [][DragLeavesFocus /\ HoverLeavesDrag]_vars
    /\ []AxesFree

\* Focused on b while a alone is pinned, the last event a hover event.
C21_Witness ==
    /\ phase = "ready"
    /\ lastEvent = "mouseover"
    /\ over = <<2>>
    /\ PinnedSet = {1}

(***************************************************************************)
(* C22: once initialize has completed, the charge strength, the link       *)
(* strength and distance, every node's centering strength and every        *)
(* circle's radius are those of the config state the sliders show, also    *)
(* when that state was loaded from localStorage.                           *)
(***************************************************************************)
C22_GraphFollowsConfig ==
    phase = "ready" =>
        /\ forces.charge = config.forces.repelForce
        /\ forces.link.strength = config.forces.linkForce
        /\ forces.link.distance = config.forces.linkDistance
        /\ \A i \in DOMAIN nodes :
              /\ ~forces.x[i].nan
              /\ forces.x[i].num * TopConnections =
                     config.forces.centerForce
                     * (TopConnections + nodes[i].connections) * forces.x[i].den
        /\ forces.y = forces.x
        /\ RadiiFollowConfig

(***************************************************************************)
(* C23: when resetConfig has completed on the loaded graph, the config     *)
(* state is defaultConfig, localStorage holds no config or defaultConfig,  *)
(* and the strengths, the link distance and the radii of the graph are     *)
(* those of defaultConfig.                                                 *)
(***************************************************************************)
C23_ResetRestoresDefaults ==
    (phase = "ready" /\ lastEvent = "resetConfig") =>
        /\ config = defaultConfig
        /\ storage \in {<<>>, <<defaultConfig>>}
        /\ forces.charge = defaultConfig.forces.repelForce
        /\ forces.link.strength = defaultConfig.forces.linkForce
        /\ forces.link.distance = defaultConfig.forces.linkDistance
        /\ \A i \in DOMAIN nodes :
              /\ ~forces.x[i].nan
              /\ forces.x[i].num * TopConnections =
                     defaultConfig.forces.centerForce
                     * (TopConnections + nodes[i].connections) * forces.x[i].den
        /\ forces.y = forces.x
        /\ \A i \in DOMAIN nodes : nodeView[i].r = radius(defaultConfig, nodes[i])

Refreshed == IF refresh = <<>> THEN {} ELSE {refresh[1].to}

(***************************************************************************)
(* C24: every call of generate_graph made for a change of the notebook     *)
(* writes the refresh to every subscriber whose connection is open at that *)
(* moment, whatever subscribers have connected and disconnected before.    *)
(***************************************************************************)
C24_RefreshReachesEveryClient ==
    [][generation' # generation => Refreshed' = subscribers]_vars

====
